---- MODULE Spec2Model ----
(***************************************************************************)
(* Model of glutin_x11_sym (src/src/lib.rs): the lazily loaded library     *)
(* registry, the Display connection object, the X11_DISPLAY singleton and  *)
(* the x_error_callback error bridge, run by a small set of threads.       *)
(***************************************************************************)
EXTENDS Integers, Sequences, FiniteSets, TLC

VARIABLES
    registry,       \* lazy_static library handles: "uninit" | "loading" | "ok" | "err"
    loads,          \* number of dlopen attempts made per library
    once,           \* lazy_static state of X11_DISPLAY
    initThread,     \* thread running the X11_DISPLAY initializer
    x11,            \* value inside the X11_DISPLAY mutex
    x11Lock,        \* owner of the X11_DISPLAY mutex
    handlerSet,     \* XSetErrorHandler(Some(x_error_callback)) has been called
    installs,       \* number of XSetErrorHandler calls
    opens,          \* number of XOpenDisplay calls
    closes,         \* number of XCloseDisplay calls per native handle
    display,        \* Display.display of each Display object
    owned,          \* Display.owned of each Display object
    latest_error,   \* Display.latest_error of each Display object (Option)
    errLock,        \* owner of each Display.latest_error mutex
    strong,         \* Arc strong count of each Display object (0: not allocated)
    held,           \* number of Arc<Display> references each thread holds
    pc,             \* position of each thread
    arg,            \* argument of the operation a thread is running
    ret,            \* outcome of the step just taken: the value it returned, or the
                    \* reference it released (NoRet: neither)
    aborted,        \* the process has aborted
    lastFired,      \* history: the native error record the bridge stored last (NoArg: none yet)
    firedCount      \* history: bridge stores since the singleton's slot was last
                    \* emptied, counted 0, 1, 2 where 2 stands for two or more

vars == <<registry, loads, once, initThread, x11, x11Lock, handlerSet, installs,
          opens, closes, display, owned, latest_error, errLock, strong, held,
          pc, arg, ret, aborted, lastFired, firedCount>>

\* ---------------------------------------------------------------- bounds
MaxWrappers == 1
MaxHeld == 1

\* ------------------------------------------------------------ value sets
Threads == {"t1", "t2"}
NoThread == "none"
Libs == {"XLIB", "XLIB_XCB"}
NULL == 0
OpenedHandle == 1
ForeignHandle == 2
ErrorRecords == {<<9, 15, 0>>, <<3, 12, 1>>}
SingletonObj == 0
ObjIds == 0..MaxWrappers
WrapperIds == 1..MaxWrappers

None == <<>>
Some(e) == <<e>>

NoArg == [handle |-> NULL, obj |-> SingletonObj, error_code |-> 0,
          request_code |-> 0, minor_code |-> 0, lib |-> "none"]
LibArg(l) == [NoArg EXCEPT !.lib = l]
HandleArg(h) == [NoArg EXCEPT !.handle = h]
ObjArg(o) == [NoArg EXCEPT !.obj = o]
EventArg(h, ec, rc, mc) == [handle |-> h, obj |-> SingletonObj, error_code |-> ec,
                            request_code |-> rc, minor_code |-> mc, lib |-> "none"]

NoRet == [thread |-> NoThread, kind |-> "none", error |-> None, arc |-> SingletonObj]
RetOk == [NoRet EXCEPT !.kind = "Ok"]
RetErr(e) == [NoRet EXCEPT !.kind = "Err", !.error = Some(e)]
RetArc(o) == [NoRet EXCEPT !.kind = "Arc", !.arc = o]
RetZero == [NoRet EXCEPT !.kind = "0"]
RetUnit == [NoRet EXCEPT !.kind = "unit"]
RetLib(r) == [NoRet EXCEPT !.kind = r]
RetDrop(o) == [NoRet EXCEPT !.kind = "drop", !.arc = o]
By(t, r) == [r EXCEPT !.thread = t]

X11Uninit == [tag |-> "Uninit", arc |-> SingletonObj]
X11Ok(o) == [tag |-> "Ok", arc |-> o]
X11Err == [tag |-> "Err", arc |-> SingletonObj]

\* ---------------------------------------------------------------- Init
Init ==
    /\ registry = [l \in Libs |-> "uninit"]
    /\ loads = [l \in Libs |-> 0]
    /\ once = "uninit"
    /\ initThread = NoThread
    /\ x11 = X11Uninit
    /\ x11Lock = NoThread
    /\ handlerSet = FALSE
    /\ installs = 0
    /\ opens = 0
    /\ closes = [h \in {OpenedHandle, ForeignHandle, NULL} |-> 0]
    /\ display = [o \in ObjIds |-> NULL]
    /\ owned = [o \in ObjIds |-> FALSE]
    /\ latest_error = [o \in ObjIds |-> None]
    /\ errLock = [o \in ObjIds |-> NoThread]
    /\ strong = [o \in ObjIds |-> 0]
    /\ held = [t \in Threads |-> [o \in ObjIds |-> 0]]
    /\ pc = [t \in Threads |-> "idle"]
    /\ arg = [t \in Threads |-> NoArg]
    /\ ret = NoRet
    /\ aborted = FALSE
    /\ lastFired = NoArg
    /\ firedCount = 0


\* ------------------------------------------------------------- helpers
\* lazy_static Deref of a registry entry: the first access runs open() once
\* and the outcome is kept for the life of the process.
LazyLoad(l, outcome) == IF registry[l] = "uninit" THEN outcome ELSE registry[l]

LoadCount(l) == IF registry[l] = "uninit" THEN loads[l] + 1 ELSE loads[l]

\* Text written by XGetErrorText for an error code.
XGetErrorText(code) ==
    CASE code = 3 -> "BadWindow"
      [] code = 9 -> "BadDrawable"
      [] OTHER -> "Unknown"

\* An XError whose request and minor codes are exchanged.
MkErrorSwapped(ev) ==
    [description |-> XGetErrorText(ev.error_code),
     error_code |-> ev.error_code,
     request_code |-> ev.minor_code,
     minor_code |-> ev.request_code]

\* The XError value built by x_error_callback from the native error record.
MkError(ev) ==
    [description |-> XGetErrorText(ev.error_code),
     error_code |-> ev.error_code,
     request_code |-> ev.request_code,
     minor_code |-> ev.minor_code]

\* Option::take on the error slot: the value handed back to the caller.
TakeResult(slot) == IF slot = None THEN RetOk ELSE RetErr(slot[1])

\* A store that keeps an error that is already pending.
StoreSlotFirstWins(slot, e) == IF slot = None THEN Some(e) ELSE slot

\* Assignment of Some(error) to the slot.
StoreSlot(slot, e) == Some(e)

\* The handles a caller or the native library can pass in: a connection made
\* elsewhere in the process, and the singleton's once it has been opened.
LiveHandles == {ForeignHandle} \cup
               (IF x11.tag = "Ok" THEN {display[x11.arc]} ELSE {})

FromRawPcs == {"fr_deref", "new_lsyms", "new_handler", "new_open", "fr_cmp", "fr_wrap"}

WrappersInUse ==
    Cardinality({o \in WrapperIds : strong[o] > 0}) +
    Cardinality({t \in Threads : pc[t] \in FromRawPcs /\ arg[t].handle \notin
                    (IF x11.tag = "Ok" THEN {display[x11.arc]} ELSE {})})

FreeWrapper == CHOOSE o \in WrapperIds : strong[o] = 0 /\ \A q \in WrapperIds : strong[q] = 0 => o <= q

CountFired == IF firedCount = 0 THEN 1 ELSE 2

\* --------------------------------------------------- registry (lines 28-57)
\* A caller dereferences one of the lazy_static library handles.
LibCall(t, l) ==
    /\ ~aborted /\ pc[t] = "idle"
    /\ pc' = [pc EXCEPT ![t] = "lib_deref"]
    /\ arg' = [arg EXCEPT ![t] = LibArg(l)]
    /\ ret' = NoRet
    /\ UNCHANGED <<registry, loads, once, initThread, x11, x11Lock, handlerSet, installs,
                   opens, closes, display, owned, latest_error, errLock, strong, held,
                   aborted, lastFired, firedCount>>

\* A first access that starts a load although one is already running.
LibMustLoadRacy(st) == st \in {"uninit", "loading"}

\* lazy_static: only the access that finds the handle uninitialized runs open().
LibMustLoad(st) == st = "uninit"

\* Deref of the handle: the first access starts the load, an access during
\* the load waits for it, a later access reads the stored outcome.
LibDeref(t) ==
    /\ ~aborted /\ pc[t] = "lib_deref"
    /\ LET l == arg[t].lib IN
         IF LibMustLoad(registry[l])
           THEN /\ registry' = [registry EXCEPT ![l] = "loading"]
                /\ pc' = [pc EXCEPT ![t] = "lib_open"]
                /\ ret' = NoRet
                /\ UNCHANGED arg
           ELSE /\ registry[l] \in {"ok", "err"}
                /\ ret' = By(t, RetLib(registry[l]))
                /\ pc' = [pc EXCEPT ![t] = "idle"]
                /\ arg' = [arg EXCEPT ![t] = NoArg]
                /\ UNCHANGED registry
    /\ UNCHANGED <<loads, once, initThread, x11, x11Lock, handlerSet, installs, opens,
                   closes, display, owned, latest_error, errLock, strong, held, aborted,
                   lastFired, firedCount>>

\* x11_dl::...::open() returns, its outcome is stored and handed to the caller.
LibOpen(t) ==
    /\ ~aborted /\ pc[t] = "lib_open"
    /\ \E out \in {"ok", "err"} :
         /\ registry' = [registry EXCEPT ![arg[t].lib] = out]
         /\ ret' = By(t, RetLib(out))
    /\ loads' = [loads EXCEPT ![arg[t].lib] = @ + 1]
    /\ pc' = [pc EXCEPT ![t] = "idle"]
    /\ arg' = [arg EXCEPT ![t] = NoArg]
    /\ UNCHANGED <<once, initThread, x11, x11Lock, handlerSet, installs, opens, closes,
                   display, owned, latest_error, errLock, strong, held, aborted,
                   lastFired, firedCount>>

\* ------------------------------------------------ Display::from_raw
FromRawCall(t, h) ==
    /\ ~aborted /\ pc[t] = "idle"
    /\ h \in LiveHandles
    /\ IF x11.tag = "Ok" /\ h = display[x11.arc]
         THEN held[t][x11.arc] < MaxHeld
         ELSE WrappersInUse < MaxWrappers
    /\ pc' = [pc EXCEPT ![t] = "fr_deref"]
    /\ arg' = [arg EXCEPT ![t] = HandleArg(h)]
    /\ ret' = NoRet
    /\ UNCHANGED <<registry, loads, once, initThread, x11, x11Lock, handlerSet, installs,
                   opens, closes, display, owned, latest_error, errLock, strong, held,
                   aborted, lastFired, firedCount>>

\* An initializer that runs again after a failed outcome.
MustInitRetry(o) == o = "uninit" \/ (o = "done" /\ x11.tag = "Err")

\* An access that does not wait for a running initializer.
ComputedEarly(o) == o \in {"running", "done"}

\* lazy_static: an access gets the value once the initializer has completed;
\* until then it waits.
Computed(o) == o = "done"

\* lazy_static: the initializer of X11_DISPLAY runs only for the first access.
MustInit(o) == o = "uninit"

\* X11_DISPLAY.lock(): the first access runs the initializer, an access to a
\* poisoned static panics, later accesses take the mutex.
FrDeref(t) ==
    /\ ~aborted /\ pc[t] = "fr_deref"
    /\ CASE MustInit(once) ->
              /\ once' = "running" /\ initThread' = t
              /\ pc' = [pc EXCEPT ![t] = "new_lsyms"]
              /\ UNCHANGED x11Lock
         [] ~MustInit(once) /\ once = "poisoned" ->
              /\ pc' = [pc EXCEPT ![t] = "panicked"]
              /\ UNCHANGED <<once, initThread, x11Lock>>
         [] ~MustInit(once) /\ once # "poisoned" /\ Computed(once) ->
              /\ x11Lock = NoThread
              /\ x11Lock' = t
              /\ pc' = [pc EXCEPT ![t] = "fr_cmp"]
              /\ UNCHANGED <<once, initThread>>
         [] OTHER -> FALSE
    /\ ret' = NoRet
    /\ UNCHANGED <<registry, loads, x11, handlerSet, installs, opens, closes, display,
                   owned, latest_error, errLock, strong, held, arg, aborted, lastFired, firedCount>>

\* Display::new, lsyms!(XLIB): XLIB.as_ref().unwrap()
NewLsyms(t) ==
    /\ ~aborted /\ pc[t] = "new_lsyms"
    /\ registry["XLIB"] # "loading"
    /\ \E out \in {"ok", "err"} :
         /\ registry' = [registry EXCEPT !["XLIB"] = LazyLoad("XLIB", out)]
         /\ loads' = [loads EXCEPT !["XLIB"] = LoadCount("XLIB")]
         /\ IF LazyLoad("XLIB", out) = "err"
              THEN /\ once' = "poisoned" /\ initThread' = NoThread
                   /\ pc' = [pc EXCEPT ![t] = "panicked"]
              ELSE /\ pc' = [pc EXCEPT ![t] = "new_handler"]
                   /\ UNCHANGED <<once, initThread>>
    /\ ret' = NoRet
    /\ UNCHANGED <<x11, x11Lock, handlerSet, installs, opens, closes, display, owned,
                   latest_error, errLock, strong, held, arg, aborted, lastFired, firedCount>>

\* Display::new, XInitThreads and XSetErrorHandler(Some(x_error_callback))
NewHandler(t) ==
    /\ ~aborted /\ pc[t] = "new_handler"
    /\ handlerSet' = TRUE
    /\ installs' = installs + 1
    /\ pc' = [pc EXCEPT ![t] = "new_open"]
    /\ ret' = NoRet
    /\ UNCHANGED <<registry, loads, once, initThread, x11, x11Lock, opens, closes, display,
                   owned, latest_error, errLock, strong, held, arg, aborted, lastFired, firedCount>>

\* The Display built by Display::new for a non-null handle.
NewOwned == TRUE

\* Display::new, XOpenDisplay and the construction of the singleton value
NewOpen(t) ==
    /\ ~aborted /\ pc[t] = "new_open"
    /\ opens' = opens + 1
    /\ \E h \in {NULL, OpenedHandle} :
         IF h = NULL
           THEN /\ x11' = X11Err
                /\ UNCHANGED <<display, owned, latest_error, strong>>
           ELSE /\ x11' = X11Ok(SingletonObj)
                /\ display' = [display EXCEPT ![SingletonObj] = h]
                /\ owned' = [owned EXCEPT ![SingletonObj] = NewOwned]
                /\ latest_error' = [latest_error EXCEPT ![SingletonObj] = None]
                /\ strong' = [strong EXCEPT ![SingletonObj] = 1]
    /\ once' = "done" /\ initThread' = NoThread
    /\ pc' = [pc EXCEPT ![t] = "fr_deref"]
    /\ ret' = NoRet
    /\ UNCHANGED <<registry, loads, x11Lock, handlerSet, installs, closes, errLock, held,
                   arg, aborted, lastFired, firedCount>>

\* x_error_callback invoked on the thread that is inside XOpenDisplay of the
\* initializer: its X11_DISPLAY access re-enters the running Once, which
\* deadlocks or panics (a panic in an extern "C" function aborts).
NestedBridge(t) ==
    /\ ~aborted /\ pc[t] = "new_open"
    /\ \/ /\ pc' = [pc EXCEPT ![t] = "deadlocked"]
          /\ UNCHANGED aborted
       \/ /\ aborted' = TRUE
          /\ UNCHANGED pc
    /\ ret' = NoRet
    /\ UNCHANGED <<registry, loads, once, initThread, x11, x11Lock, handlerSet, installs,
                   opens, closes, display, owned, latest_error, errLock, strong, held,
                   arg, lastFired, firedCount>>

\* A comparison that never recognises the singleton's handle.
SameDisplayNever(t) == FALSE

\* from_raw, the comparison made under the X11_DISPLAY mutex
SameDisplay(t) == x11.tag = "Ok" /\ display[x11.arc] = arg[t].handle

FrCmp(t) ==
    /\ ~aborted /\ pc[t] = "fr_cmp"
    /\ x11Lock' = NoThread
    /\ IF SameDisplay(t)
         THEN /\ strong' = [strong EXCEPT ![x11.arc] = @ + 1]
              /\ held' = [held EXCEPT ![t][x11.arc] = @ + 1]
              /\ ret' = By(t, RetArc(x11.arc))
              /\ pc' = [pc EXCEPT ![t] = "idle"]
              /\ arg' = [arg EXCEPT ![t] = NoArg]
         ELSE /\ pc' = [pc EXCEPT ![t] = "fr_wrap"]
              /\ ret' = NoRet
              /\ UNCHANGED <<strong, held, arg>>
    /\ UNCHANGED <<registry, loads, once, initThread, x11, handlerSet, installs, opens,
                   closes, display, owned, latest_error, errLock, aborted, lastFired, firedCount>>

\* A wrapper that takes ownership of the handle.
WrapOwnedTrue == TRUE

\* The ownership flag from_raw gives a wrapper.
WrapOwned == FALSE

\* from_raw, Arc::new(Display { display, latest_error: None, owned: false })
FrWrap(t) ==
    /\ ~aborted /\ pc[t] = "fr_wrap"
    /\ LET o == FreeWrapper IN
         /\ display' = [display EXCEPT ![o] = arg[t].handle]
         /\ owned' = [owned EXCEPT ![o] = WrapOwned]
         /\ latest_error' = [latest_error EXCEPT ![o] = None]
         /\ strong' = [strong EXCEPT ![o] = 1]
         /\ held' = [held EXCEPT ![t][o] = 1]
         /\ ret' = By(t, RetArc(o))
    /\ pc' = [pc EXCEPT ![t] = "idle"]
    /\ arg' = [arg EXCEPT ![t] = NoArg]
    /\ UNCHANGED <<registry, loads, once, initThread, x11, x11Lock, handlerSet, installs,
                   opens, closes, errLock, aborted, lastFired, firedCount>>


\* A guard of the error slot kept by the thread after the statement.
GuardKept(t) == t

\* The guard returned by latest_error.lock() is a temporary: the slot's mutex
\* is released at the end of the statement that took it.
GuardDropped(t) == NoThread

\* A store into the Display that carries the handle of the native error.
StoreTargetByHandle(t) ==
    IF \E o \in ObjIds : strong[o] > 0 /\ display[o] = arg[t].handle
      THEN CHOOSE o \in ObjIds : strong[o] > 0 /\ display[o] = arg[t].handle
      ELSE x11.arc

\* The Display whose slot x_error_callback locks and writes: the singleton's.
StoreTarget(t) == x11.arc

\* ------------------------------------------------ Display::check_errors
CheckErrorsCall(t, o) ==
    /\ ~aborted /\ pc[t] = "idle"
    /\ held[t][o] > 0
    /\ pc' = [pc EXCEPT ![t] = "ce_lock"]
    /\ arg' = [arg EXCEPT ![t] = ObjArg(o)]
    /\ ret' = NoRet
    /\ UNCHANGED <<registry, loads, once, initThread, x11, x11Lock, handlerSet, installs,
                   opens, closes, display, owned, latest_error, errLock, strong, held,
                   aborted, lastFired, firedCount>>

\* self.latest_error.lock()
CeLock(t) ==
    /\ ~aborted /\ pc[t] = "ce_lock"
    /\ errLock[arg[t].obj] = NoThread
    /\ errLock' = [errLock EXCEPT ![arg[t].obj] = t]
    /\ pc' = [pc EXCEPT ![t] = "ce_take"]
    /\ ret' = NoRet
    /\ UNCHANGED <<registry, loads, once, initThread, x11, x11Lock, handlerSet, installs,
                   opens, closes, display, owned, latest_error, strong, held, arg, aborted, lastFired, firedCount>>

\* A read that leaves the pending error in the slot.
TakeLeavesKeep(slot) == slot

\* What Option::take leaves in the slot.
TakeLeaves(slot) == None

\* .take(), the guard is released and the taken value returned
CeTake(t) ==
    /\ ~aborted /\ pc[t] = "ce_take"
    /\ LET o == arg[t].obj IN
         /\ ret' = By(t, TakeResult(latest_error[o]))
         /\ latest_error' = [latest_error EXCEPT ![o] = TakeLeaves(latest_error[o])]
         /\ errLock' = [errLock EXCEPT ![o] = GuardDropped(t)]
         /\ firedCount' = IF o = SingletonObj THEN 0 ELSE firedCount
         /\ UNCHANGED lastFired
    /\ pc' = [pc EXCEPT ![t] = "idle"]
    /\ arg' = [arg EXCEPT ![t] = NoArg]
    /\ UNCHANGED <<registry, loads, once, initThread, x11, x11Lock, handlerSet, installs,
                   opens, closes, display, owned, strong, held, aborted>>

\* ------------------------------------------------ Display::ignore_error
IgnoreErrorCall(t, o) ==
    /\ ~aborted /\ pc[t] = "idle"
    /\ held[t][o] > 0
    /\ pc' = [pc EXCEPT ![t] = "ie_lock"]
    /\ arg' = [arg EXCEPT ![t] = ObjArg(o)]
    /\ ret' = NoRet
    /\ UNCHANGED <<registry, loads, once, initThread, x11, x11Lock, handlerSet, installs,
                   opens, closes, display, owned, latest_error, errLock, strong, held,
                   aborted, lastFired, firedCount>>

IeLock(t) ==
    /\ ~aborted /\ pc[t] = "ie_lock"
    /\ errLock[arg[t].obj] = NoThread
    /\ errLock' = [errLock EXCEPT ![arg[t].obj] = t]
    /\ pc' = [pc EXCEPT ![t] = "ie_clear"]
    /\ ret' = NoRet
    /\ UNCHANGED <<registry, loads, once, initThread, x11, x11Lock, handlerSet, installs,
                   opens, closes, display, owned, latest_error, strong, held, arg, aborted, lastFired, firedCount>>

\* An ignore_error that leaves the pending error in the slot.
IgnoreValueKeep(slot) == slot

\* The value ignore_error assigns to the slot.
IgnoreValue(slot) == None

\* *guard = None, the guard is released, nothing is returned
IeClear(t) ==
    /\ ~aborted /\ pc[t] = "ie_clear"
    /\ LET o == arg[t].obj IN
         /\ latest_error' = [latest_error EXCEPT ![o] = IgnoreValue(latest_error[o])]
         /\ errLock' = [errLock EXCEPT ![o] = GuardDropped(t)]
         /\ firedCount' = IF o = SingletonObj THEN 0 ELSE firedCount
         /\ UNCHANGED lastFired
    /\ ret' = By(t, RetUnit)
    /\ pc' = [pc EXCEPT ![t] = "idle"]
    /\ arg' = [arg EXCEPT ![t] = NoArg]
    /\ UNCHANGED <<registry, loads, once, initThread, x11, x11Lock, handlerSet, installs,
                   opens, closes, display, owned, strong, held, aborted>>

\* ------------------------------------------------ Drop for Display
\* Drop::drop calls XCloseDisplay exactly when the Display is owned.
DropCloses(o) == owned[o]

\* A Drop::drop that runs at every release of a reference.
LastRefAny(o) == TRUE

\* Arc runs Drop::drop when the strong count falls to zero.
LastRef(o) == strong[o] = 1

\* A thread releases one Arc<Display> it holds; the release of the last one
\* runs Drop::drop and frees the object.
ArcDrop(t, o) ==
    /\ ~aborted /\ pc[t] = "idle"
    /\ held[t][o] > 0
    /\ held' = [held EXCEPT ![t][o] = @ - 1]
    /\ strong' = [strong EXCEPT ![o] = @ - 1]
    /\ closes' = IF LastRef(o) /\ DropCloses(o)
                   THEN [closes EXCEPT ![display[o]] = @ + 1]
                   ELSE closes
    /\ IF LastRef(o)
         THEN /\ display' = [display EXCEPT ![o] = NULL]
              /\ owned' = [owned EXCEPT ![o] = FALSE]
              /\ latest_error' = [latest_error EXCEPT ![o] = None]
         ELSE UNCHANGED <<display, owned, latest_error>>
    /\ ret' = By(t, RetDrop(o))
    /\ UNCHANGED <<registry, loads, once, initThread, x11, x11Lock, handlerSet, installs,
                   opens, errLock, pc, arg, aborted, lastFired, firedCount>>

\* ------------------------------------------------ x_error_callback
\* The native library calls the installed handler on a thread that is inside
\* a native call of its own.
BridgeCall(t, h, ec, rc, mc) ==
    /\ ~aborted /\ pc[t] = "idle"
    /\ handlerSet
    /\ h \in LiveHandles
    /\ IF registry["XLIB"] = "ok"
         THEN /\ pc' = [pc EXCEPT ![t] = "cb_deref"]
              /\ UNCHANGED aborted
         ELSE /\ aborted' = TRUE
              /\ UNCHANGED pc
    /\ arg' = [arg EXCEPT ![t] = EventArg(h, ec, rc, mc)]
    /\ ret' = NoRet
    /\ UNCHANGED <<registry, loads, once, initThread, x11, x11Lock, handlerSet, installs,
                   opens, closes, display, owned, latest_error, errLock, strong, held,
                   lastFired, firedCount>>

\* A test that takes every singleton value for a connection.
AttributableAlways(t) == TRUE

\* if let Ok(ref display) = *display
Attributable(t) == x11.tag = "Ok"

\* let display = X11_DISPLAY.lock() and the test of its value; the static is
\* initialized here because only its initializer installs the handler. With
\* no connection the guard is released and 0 returned.
CbDeref(t) ==
    /\ ~aborted /\ pc[t] = "cb_deref"
    /\ once = "done"
    /\ x11Lock = NoThread
    /\ IF Attributable(t)
         THEN /\ x11Lock' = t
              /\ pc' = [pc EXCEPT ![t] = "cb_text"]
              /\ ret' = NoRet
              /\ UNCHANGED arg
         ELSE /\ ret' = By(t, RetZero)
              /\ pc' = [pc EXCEPT ![t] = "idle"]
              /\ arg' = [arg EXCEPT ![t] = NoArg]
              /\ UNCHANGED x11Lock
    /\ UNCHANGED <<registry, loads, once, initThread, x11, handlerSet, installs, opens,
                   closes, display, owned, latest_error, errLock, strong, held, aborted,
                   lastFired, firedCount>>

\* XGetErrorText into the stack buffer and the construction of the XError
CbText(t) ==
    /\ ~aborted /\ pc[t] = "cb_text"
    /\ pc' = [pc EXCEPT ![t] = "cb_lock"]
    /\ ret' = NoRet
    /\ UNCHANGED <<registry, loads, once, initThread, x11, x11Lock, handlerSet, installs,
                   opens, closes, display, owned, latest_error, errLock, strong, held,
                   arg, aborted, lastFired, firedCount>>

\* display.latest_error.lock()
CbLock(t) ==
    /\ ~aborted /\ pc[t] = "cb_lock"
    /\ errLock[StoreTarget(t)] = NoThread
    /\ errLock' = [errLock EXCEPT ![StoreTarget(t)] = t]
    /\ pc' = [pc EXCEPT ![t] = "cb_store"]
    /\ ret' = NoRet
    /\ UNCHANGED <<registry, loads, once, initThread, x11, x11Lock, handlerSet, installs,
                   opens, closes, display, owned, latest_error, strong, held, arg, aborted, lastFired, firedCount>>

\* *guard = Some(error); both guards are released and 0 is returned
CbStore(t) ==
    /\ ~aborted /\ pc[t] = "cb_store"
    /\ LET o == StoreTarget(t)
           new == StoreSlot(latest_error[o], MkError(arg[t]))
       IN /\ latest_error' = [latest_error EXCEPT ![o] = new]
          /\ firedCount' = CountFired
          /\ lastFired' = arg[t]
          /\ errLock' = [errLock EXCEPT ![o] = GuardDropped(t)]
    /\ x11Lock' = NoThread
    /\ ret' = By(t, RetZero)
    /\ pc' = [pc EXCEPT ![t] = "idle"]
    /\ arg' = [arg EXCEPT ![t] = NoArg]
    /\ UNCHANGED <<registry, loads, once, initThread, x11, handlerSet, installs, opens,
                   closes, display, owned, strong, held, aborted>>

\* ---------------------------------------------------------------- Next
Next ==
    \/ \E t \in Threads, h \in {OpenedHandle, ForeignHandle} : FromRawCall(t, h)
    \/ \E t \in Threads : FrDeref(t)
    \/ \E t \in Threads : NewLsyms(t)
    \/ \E t \in Threads : NewHandler(t)
    \/ \E t \in Threads : NewOpen(t)
    \/ \E t \in Threads : NestedBridge(t)
    \/ \E t \in Threads : FrCmp(t)
    \/ \E t \in Threads : FrWrap(t)
    \/ \E t \in Threads, o \in ObjIds : CheckErrorsCall(t, o)
    \/ \E t \in Threads : CeLock(t)
    \/ \E t \in Threads : CeTake(t)
    \/ \E t \in Threads, o \in ObjIds : IgnoreErrorCall(t, o)
    \/ \E t \in Threads : IeLock(t)
    \/ \E t \in Threads : IeClear(t)
    \/ \E t \in Threads, o \in ObjIds : ArcDrop(t, o)
    \/ \E t \in Threads, h \in {OpenedHandle, ForeignHandle}, ev \in ErrorRecords :
          BridgeCall(t, h, ev[1], ev[2], ev[3])
    \/ \E t \in Threads : CbDeref(t)
    \/ \E t \in Threads : CbText(t)
    \/ \E t \in Threads : CbLock(t)
    \/ \E t \in Threads : CbStore(t)

Spec == Init /\ [][Next]_vars

\* The registry on its own: callers dereference the library handles while
\* from_raw runs, whose initializer looks XLIB up itself.
RegistryNext ==
    \/ \E t \in Threads, l \in Libs : LibCall(t, l)
    \/ \E t \in Threads : LibDeref(t)
    \/ \E t \in Threads : LibOpen(t)
    \/ \E t \in Threads, h \in {OpenedHandle, ForeignHandle} : FromRawCall(t, h)
    \/ \E t \in Threads : FrDeref(t)
    \/ \E t \in Threads : NewLsyms(t)
    \/ \E t \in Threads : NewHandler(t)
    \/ \E t \in Threads : NewOpen(t)
    \/ \E t \in Threads : FrCmp(t)
    \/ \E t \in Threads : FrWrap(t)
    \/ \E t \in Threads, o \in ObjIds : ArcDrop(t, o)

RegistrySpec == Init /\ [][RegistryNext]_vars


\* ------------------------------------------------------------ properties
\* Steps of the operations, recognised by the position of the thread.
TakeStep(t) == pc[t] = "ce_take" /\ pc'[t] = "idle"
ClearStep(t) == pc[t] = "ie_clear" /\ pc'[t] = "idle"
StoreStep(t) == pc[t] = "cb_store" /\ pc'[t] = "idle"
CmpStep(t) == pc[t] = "fr_cmp" /\ pc'[t] # "fr_cmp"
WrapStep(t) == pc[t] = "fr_wrap" /\ pc'[t] = "idle"
ReleaseStep(t, o) == held'[t][o] < held[t][o]

\* C1: check_errors takes the pending error under the slot's lock: an
\* Occupied slot is returned as a failure and left Empty, an Empty slot gives
\* success; a check_errors on the singleton connection with no bridge store
\* since the slot was last emptied returns success.
C1_CheckErrorsTakes ==
    [][\A t \in Threads : TakeStep(t) =>
          LET o == arg[t].obj IN
            /\ errLock[o] = t
            /\ latest_error'[o] = None
            /\ (latest_error[o] = None => ret' = By(t, RetOk))
            /\ (latest_error[o] # None =>
                  /\ ret'.thread = t /\ ret'.kind = "Err"
                  /\ ret'.error = latest_error[o])
            /\ (o = SingletonObj /\ firedCount = 0 => ret' = By(t, RetOk))]_vars

C1_Witness ==
    /\ ret.kind = "Err"
    /\ x11.tag = "Ok"
    /\ latest_error[SingletonObj] = None
    /\ firedCount = 0

\* C2: the slot of the singleton connection holds exactly the error of the
\* last bridge store since it was emptied, however many stores there were:
\* a store overwrites, the next check_errors returns the last error and
\* empties the slot, so that the one after it returns success.
C2_LastWriterWins ==
    /\ [](x11.tag = "Ok" =>
            /\ (firedCount = 0 => latest_error[SingletonObj] = None)
            /\ (firedCount > 0 => latest_error[SingletonObj] = Some(MkError(lastFired))))
    /\ [][\A t \in Threads : StoreStep(t) =>
            /\ latest_error'[x11.arc] = Some(MkError(arg[t]))
            /\ Len(latest_error'[x11.arc]) = 1]_vars
    /\ [][\A t \in Threads : (TakeStep(t) /\ arg[t].obj = SingletonObj /\ firedCount > 0) =>
            /\ ret' = By(t, RetErr(MkError(lastFired)))
            /\ firedCount' = 0
            /\ latest_error'[SingletonObj] = None]_vars

C2_Witness ==
    /\ x11.tag = "Ok"
    /\ firedCount = 2
    /\ latest_error[SingletonObj] = Some(MkError(lastFired))

\* C3: ignore_error leaves the slot Empty whatever was pending and reports
\* nothing, and a check_errors that finds the slot Empty returns success.
C3_IgnoreThenCheck ==
    /\ [][\A t \in Threads : ClearStep(t) =>
            /\ errLock[arg[t].obj] = t
            /\ latest_error'[arg[t].obj] = None
            /\ (arg[t].obj = SingletonObj => firedCount' = 0)
            /\ ret' = By(t, RetUnit)]_vars
    /\ [][\A t \in Threads : (TakeStep(t) /\ latest_error[arg[t].obj] = None) =>
            ret'.kind = "Ok"]_vars

C3_Witness ==
    /\ ret.kind = "unit"
    /\ lastFired # NoArg
    /\ firedCount = 0
    /\ latest_error[SingletonObj] = None

\* C4: a check_errors that follows a bridge store for the handle of the
\* singleton connection returns a failure carrying the error_code,
\* request_code and minor_code of the native error record and the text of
\* that error_code, e.g. "BadDrawable", 9, 15, 0.
C4_ErrorFields ==
    [][\A t \in Threads :
          (TakeStep(t) /\ arg[t].obj = SingletonObj /\ firedCount > 0
             /\ x11.tag = "Ok" /\ lastFired.handle = display[x11.arc]) =>
            /\ ret'.kind = "Err"
            /\ ret'.error = Some([description |-> XGetErrorText(lastFired.error_code),
                                  error_code |-> lastFired.error_code,
                                  request_code |-> lastFired.request_code,
                                  minor_code |-> lastFired.minor_code])
            /\ (<<lastFired.error_code, lastFired.request_code, lastFired.minor_code>>
                   = <<9, 15, 0>> =>
                  ret'.error = Some([description |-> "BadDrawable", error_code |-> 9,
                                     request_code |-> 15, minor_code |-> 0]))]_vars

C4_Witness ==
    /\ ret = [thread |-> ret.thread, kind |-> "Err", arc |-> SingletonObj,
              error |-> Some([description |-> "BadDrawable", error_code |-> 9,
                              request_code |-> 15, minor_code |-> 0])]
    /\ lastFired.handle = OpenedHandle

\* C5: from_raw of the handle of the established singleton connection hands
\* out a further reference to the singleton's own Display and creates no
\* wrapper, so no other Display object ever carries that handle and every
\* reference to the connection has the one error slot.
C5_AdoptSingleton ==
    /\ [][\A t \in Threads :
            (CmpStep(t) /\ x11.tag = "Ok" /\ arg[t].handle = display[x11.arc]) =>
              /\ ret' = By(t, RetArc(x11.arc))
              /\ pc'[t] = "idle"
              /\ strong'[x11.arc] = strong[x11.arc] + 1
              /\ held'[t][x11.arc] = held[t][x11.arc] + 1
              /\ \A w \in WrapperIds : strong'[w] = strong[w]
              /\ UNCHANGED <<display, owned, latest_error>>]_vars
    /\ [](x11.tag = "Ok" =>
            \A w \in WrapperIds : strong[w] > 0 => display[w] # display[x11.arc])

C5_Witness ==
    /\ ret.kind = "Arc" /\ ret.arc = SingletonObj
    /\ x11 = X11Ok(SingletonObj)
    /\ \A t \in Threads : held[t][SingletonObj] > 0

\* C6: from_raw of a handle that is not the singleton connection's, or of any
\* handle when the singleton holds a failure, creates a fresh Display with
\* owned = false and an Empty slot; no wrapper is ever owned and a release of
\* a wrapper, the last included, makes no XCloseDisplay call.
C6_AdoptForeign ==
    /\ [][\A t \in Threads :
            (CmpStep(t) /\ ~(x11.tag = "Ok" /\ arg[t].handle = display[x11.arc])) =>
              pc'[t] = "fr_wrap" /\ UNCHANGED <<strong, held, display, owned>>]_vars
    /\ [][\A t \in Threads : WrapStep(t) =>
            \E o \in WrapperIds :
              /\ strong[o] = 0 /\ strong'[o] = 1
              /\ display'[o] = arg[t].handle
              /\ owned'[o] = FALSE
              /\ latest_error'[o] = None
              /\ ret' = By(t, RetArc(o))]_vars
    /\ [][\A t \in Threads, o \in WrapperIds : ReleaseStep(t, o) => closes' = closes]_vars
    /\ [](\A o \in WrapperIds : ~owned[o])
    /\ [](closes[ForeignHandle] = 0 /\ closes[NULL] = 0)

C6_Witness ==
    /\ ret.kind = "drop" /\ ret.arc \in WrapperIds
    /\ strong[ret.arc] = 0
    /\ \A h \in DOMAIN closes : closes[h] = 0

\* C7: a bridge invocation for a native handle that is not the singleton
\* connection's changes no error slot.
C7_ForeignErrorDropped ==
    [][\A t \in Threads :
          (StoreStep(t) /\ arg[t].handle # display[x11.arc]) =>
            latest_error' = latest_error]_vars

\* C8: the initializer of the singleton runs at most once (one handler
\* installation, one XOpenDisplay call), the value it computes never changes
\* afterwards, and a failed open stays a failure.
C8_SingletonOnce ==
    /\ [](installs <= 1 /\ opens <= 1 /\ loads["XLIB"] <= 1)
    /\ [](once = "done" <=> x11 # X11Uninit)
    /\ [](once = "done" => opens = 1 /\ x11.tag \in {"Ok", "Err"})
    /\ [][x11 # X11Uninit => x11' = x11]_vars
    /\ [][(once \in {"done", "poisoned"}) => once' = once]_vars

C8_Witness ==
    /\ x11 = X11Err
    /\ opens = 1
    /\ ret.kind \in {"Arc", "0"}

\* C9: when the load of the core library failed, the initializer returns a
\* failure that the singleton then holds; no thread panics.
C9_LoadFailureReturned ==
    [](registry["XLIB"] = "err" =>
         /\ \A t \in Threads : pc[t] # "panicked"
         /\ once # "poisoned"
         /\ (opens > 0 => x11.tag = "Err"))

LibReturnStep(t) == pc[t] \in {"lib_deref", "lib_open"} /\ pc'[t] = "idle"

C11_RegistryOnce ==
    /\ [](\A l \in Libs :
            /\ loads[l] <= 1
            /\ (registry[l] \in {"ok", "err"} <=> loads[l] = 1))
    /\ [][\A l \in Libs : (registry[l] \in {"ok", "err"}) => registry'[l] = registry[l]]_vars
    /\ [][\A t \in Threads : LibReturnStep(t) =>
            /\ registry'[arg[t].lib] \in {"ok", "err"}
            /\ ret' = By(t, RetLib(registry'[arg[t].lib]))]_vars
    /\ [][\A t \in Threads : (pc[t] \in {"lib_deref", "lib_open"} /\ pc'[t] # pc[t]) =>
            \A m \in Libs \ {arg[t].lib} :
              registry'[m] = registry[m] /\ loads'[m] = loads[m]]_vars
    /\ [](\A t \in Threads :
            /\ (pc[t] = "lib_deref" /\ registry[arg[t].lib] # "loading" /\ ~aborted)
                  => ENABLED LibDeref(t)
            /\ (pc[t] = "lib_open" /\ ~aborted) => ENABLED LibOpen(t))

C11_Witness ==
    /\ registry["XLIB"] = "err"
    /\ registry["XLIB_XCB"] = "ok"
    /\ loads["XLIB"] = 1 /\ loads["XLIB_XCB"] = 1
    /\ ret.kind = "ok"


\* Positions at which a thread is inside a native call made by the core.
InNativeCall(t) == pc[t] \in {"new_handler", "new_open", "cb_text"}

\* Positions at which a thread waits for the X11_DISPLAY mutex.
WaitsForSingleton(t) == pc[t] \in {"fr_deref", "cb_deref"}

\* C12: no thread is inside a native call of the core (XSetErrorHandler,
\* XOpenDisplay, XGetErrorText) while it holds the X11_DISPLAY mutex.
C12_NoNativeCallUnderSingletonMutex ==
    \A t \in Threads : InNativeCall(t) => x11Lock # t

\* C13: a thread holds the mutex of an error slot only at the single take,
\* clear or store step, hence never inside a native call and never while it
\* waits for the X11_DISPLAY mutex; the step that follows the lock releases it.
C13_SlotLockBrief ==
    /\ [](\A t \in Threads, o \in ObjIds : errLock[o] = t =>
            /\ pc[t] \in {"ce_take", "ie_clear", "cb_store"}
            /\ ~InNativeCall(t)
            /\ ~WaitsForSingleton(t)
            /\ \A q \in ObjIds \ {o} : errLock[q] # t)
    /\ [][\A t \in Threads, o \in ObjIds :
            (errLock[o] = t /\ pc'[t] # pc[t]) => errLock'[o] = NoThread]_vars

C13_Witness ==
    \E t, u \in Threads :
      /\ errLock[SingletonObj] = t /\ pc[t] = "cb_store"
      /\ x11Lock = t
      /\ pc[u] = "cb_deref"


\* C14: while a thread is running the initializer of X11_DISPLAY, a native
\* error delivered to the handler on that thread neither aborts the process
\* nor leaves the thread blocked forever.
C14_EstablishSurvivesError ==
    \A t \in Threads :
      (once = "running" /\ initThread = t) => (~aborted /\ pc[t] # "deadlocked")

\* Steps of x_error_callback after its invocation.
BridgeStep(t) ==
    pc[t] \in {"cb_deref", "cb_text", "cb_lock", "cb_store"} /\ pc'[t] # pc[t]

\* C15: when X11_DISPLAY holds Err, x_error_callback returns 0 and changes
\* no error slot, no lock and not the singleton value; no step of
\* x_error_callback ever changes a Display's handle or its owned flag.
C15_FailureBridgeNoop ==
    /\ [][\A t \in Threads : (BridgeStep(t) /\ x11.tag = "Err") =>
            /\ ret' = By(t, RetZero)
            /\ pc'[t] = "idle"
            /\ UNCHANGED <<latest_error, x11, display, owned, x11Lock, errLock,
                           strong, lastFired, firedCount>>]_vars
    /\ [][\A t \in Threads :
            (BridgeStep(t) \/ (pc[t] = "idle" /\ pc'[t] = "cb_deref")) =>
              UNCHANGED <<display, owned, x11, strong>>]_vars

C15_Witness ==
    /\ x11 = X11Err /\ installs = 1
    /\ ret.thread \in Threads /\ ret.kind = "0"
    /\ \A o \in ObjIds : latest_error[o] = None

\* The next step of an operation that thread t has begun.
ThreadStep(t) ==
    \/ FrDeref(t) \/ NewLsyms(t) \/ NewHandler(t) \/ NewOpen(t)
    \/ FrCmp(t) \/ FrWrap(t)
    \/ CeLock(t) \/ CeTake(t)
    \/ IeLock(t) \/ IeClear(t)
    \/ CbDeref(t) \/ CbText(t) \/ CbLock(t) \/ CbStore(t)

\* C16: whenever an operation is in progress, some operation in progress
\* can take its next step (no set of begun operations is stuck); a thread
\* that waits for the X11_DISPLAY mutex holds neither that mutex nor the
\* mutex of an error slot.
C16_DeadlockFree ==
    /\ (\E t \in Threads : pc[t] \notin {"idle", "panicked"}) =>
          \E t \in Threads : ENABLED ThreadStep(t)
    /\ \A t \in Threads : WaitsForSingleton(t) =>
          /\ x11Lock # t
          /\ \A o \in ObjIds : errLock[o] # t


\* C17: the error slot of a wrapper made by from_raw stays empty whatever
\* x_error_callback is given, and check_errors on a wrapper returns Ok(()).
C17_WrapperSlotEmpty ==
    /\ [](\A w \in WrapperIds : latest_error[w] = None)
    /\ [][\A t \in Threads : (TakeStep(t) /\ arg[t].obj \in WrapperIds) =>
            ret' = By(t, RetOk)]_vars
    /\ [][\A t \in Threads : StoreStep(t) =>
            \A w \in WrapperIds : latest_error'[w] = latest_error[w]]_vars

C17_Witness ==
    /\ ret.thread \in Threads /\ ret.kind = "Ok"
    /\ x11.tag = "Ok"
    /\ firedCount > 0 /\ lastFired.handle = ForeignHandle
    /\ latest_error[SingletonObj] # None
    /\ \E w \in WrapperIds :
         /\ held[ret.thread][w] > 0
         /\ display[w] = ForeignHandle
         /\ held[ret.thread][SingletonObj] = 0

\* Steps of from_raw after the singleton has been consulted.
FromRawStep(t) == pc[t] \in {"fr_cmp", "fr_wrap"} /\ pc'[t] # pc[t]

\* C18: a live Display with owned = true is the singleton's; the handler is
\* installed at most once, XOpenDisplay is called at most once and only after
\* the installation; from_raw makes only Displays with owned = false and
\* leaves the owned flag of every live Display as it was.
C18_OneOwner ==
    /\ [](\A o \in ObjIds : (strong[o] > 0 /\ owned[o]) =>
            (x11.tag = "Ok" /\ o = x11.arc))
    /\ [](installs <= 1 /\ opens <= installs)
    /\ [][opens' # opens => (installs = 1 /\ handlerSet /\ opens = 0)]_vars
    /\ [][\A t \in Threads : FromRawStep(t) =>
            /\ \A o \in ObjIds : strong[o] > 0 => owned'[o] = owned[o]
            /\ \A o \in ObjIds : (strong[o] = 0 /\ strong'[o] > 0) => ~owned'[o]]_vars

C18_Witness ==
    /\ x11 = X11Ok(SingletonObj) /\ owned[SingletonObj]
    /\ installs = 1 /\ opens = 1
    /\ \E w \in WrapperIds : strong[w] > 0 /\ ~owned[w] /\ ret.kind = "Arc" /\ ret.arc = w

\* C19: a thread of from_raw compares handles only after the initializer of
\* X11_DISPLAY has completed (handler installed, XOpenDisplay called); the
\* first access is the one that runs it; when from_raw has returned, the
\* singleton holds its computed value.
C19_EstablishBeforeCompare ==
    /\ [](\A t \in Threads : pc[t] \in {"fr_cmp", "fr_wrap"} =>
            /\ once = "done" /\ x11 # X11Uninit
            /\ installs = 1 /\ opens = 1)
    /\ [](ret.kind = "Arc" => (once = "done" /\ x11 # X11Uninit))
    /\ [][\A t \in Threads : (pc[t] = "fr_deref" /\ pc'[t] # pc[t] /\ once = "uninit") =>
            /\ pc'[t] = "new_lsyms"
            /\ once' = "running" /\ initThread' = t]_vars
    /\ [][\A t \in Threads : (pc[t] = "new_open" /\ pc'[t] = "fr_deref") =>
            once' = "done"]_vars

C19_Witness ==
    /\ ret.kind = "Arc" /\ ret.arc \in WrapperIds
    /\ display[ret.arc] = ForeignHandle
    /\ once = "done" /\ installs = 1 /\ opens = 1
    /\ x11.tag = "Ok" /\ strong[SingletonObj] = 1

====
